---- MODULE Spec2Model ----
(***************************************************************************)
(* Model of the asynchronous Jest/Mongoose harness: db.test.js (the test   *)
(* and, from line 176 on, the openDB connection promise) together with the *)
(* two versions of the Test schema (model.js and unnamed/part_000).        *)
(*                                                                         *)
(* Every asynchronous operation (connect, save, findOne, dropDatabase,     *)
(* the timer) is split in the step where the store or the clock produces   *)
(* its outcome and the step where the event loop runs the callback.        *)
(***************************************************************************)
EXTENDS Integers, Sequences, FiniteSets, TLC

\* Bound: the number of candidate records of a dataset (testData has 3).
MaxRecords == 2

\* ------------------------------------------------------------------ data

\* The shapes of candidate record the datasets are drawn from: whether the
\* record carries `username` (otherwise it carries `user`), whether it
\* carries the undeclared `prop`, and its two expectation flags.
\* The first three are the three entries of testData.
RecordKinds ==
  { [hasUsername |-> TRUE,  hasProp |-> FALSE, willBeCreated |-> TRUE,  willPass |-> TRUE ],
    [hasUsername |-> FALSE, hasProp |-> FALSE, willBeCreated |-> FALSE, willPass |-> FALSE],
    [hasUsername |-> TRUE,  hasProp |-> TRUE,  willBeCreated |-> TRUE,  willPass |-> FALSE],
    [hasUsername |-> TRUE,  hasProp |-> FALSE, willBeCreated |-> FALSE, willPass |-> FALSE],
    [hasUsername |-> FALSE, hasProp |-> FALSE, willBeCreated |-> TRUE,  willPass |-> TRUE ],
    [hasUsername |-> TRUE,  hasProp |-> TRUE,  willBeCreated |-> TRUE,  willPass |-> TRUE ] }

\* Restriction of a document (a function from field names to values).
Restrict(doc, fields) == [f \in (DOMAIN doc) \cap fields |-> doc[f]]

\* The object literal of a testData entry.  Usernames are distinct per
\* entry, as in testData; the number i stands for the i-th distinct string.
Candidate(kind, i) ==
  LET all == [f \in {"username", "user", "password", "prop", "willBeCreated", "willPass"} |->
                CASE f = "username"      -> i
                  [] f = "user"          -> i
                  [] f = "password"      -> 0
                  [] f = "prop"          -> 0
                  [] f = "willBeCreated" -> kind.willBeCreated
                  [] f = "willPass"      -> kind.willPass]
      present == {"password", "willBeCreated", "willPass"}
                   \cup (IF kind.hasUsername THEN {"username"} ELSE {"user"})
                   \cup (IF kind.hasProp THEN {"prop"} ELSE {})
  IN  Restrict(all, present)

\* The two versions of TestSchema.
Schemas == {"model.js", "part_000"}

SchemaFields(s) ==
  IF s = "model.js" THEN {"username", "password", "pass"}
  ELSE {"username", "password", "willBeCreated", "willPass"}

SchemaRequired(s) ==
  IF s = "model.js" THEN {"username", "password"}
  ELSE {"username", "password", "willBeCreated", "willPass"}

\* new TestModel(expectedData): undeclared properties are removed.
NewTestModel(s, data) == Restrict(data, SchemaFields(s))

\* Validation run by save(): every required path must be present.
Validates(s, testDoc) == SchemaRequired(s) \subseteq DOMAIN testDoc

\* The document the store keeps: the validated paths plus _id and __v.
Persisted(s, data, i) ==
  LET d == NewTestModel(s, data)
  IN  [f \in (DOMAIN d) \cup {"_id", "__v"} |->
         IF f = "_id" THEN i ELSE IF f = "__v" THEN 0 ELSE d[f]]

\* delete retrievedData._id; delete retrievedData.__v
StripGenerated(doc) == Restrict(doc, (DOMAIN doc) \ {"_id", "__v"})

\* ------------------------------------------------------------------ errors

Undefined == <<"undefined", 0>>
Null == <<"null", 0>>
ValidationError(i) == <<"ValidationError", i>>
StoreError(i) == <<"StoreError", i>>
AssertionError(i) == <<"AssertionError", i>>

\* What done(error) treats as a failure of the run.
IsError(e) == e # Undefined /\ e # Null

\* A missing document (findOne found nothing).
NoDoc == [none |-> TRUE]

\* ------------------------------------------------------------------ state

VARIABLES
  testData,     \* the dataset: a sequence of candidate records
  schema,       \* which version of TestSchema is loaded
  conn,         \* mongoose.connection: "connecting", "open", "failed", "closed"
  promise,      \* openDB: "pending", "resolved", "rejected"
  pc,           \* testModel: "idle" (not called), "waiting" (then registered), "running"
  result,       \* the object passed to closeDB: error, silent, doneIsFunction
  declared,     \* the argument of expect.assertions
  assertions,   \* the number of expect() matchers called so far
  timer,        \* "none", "scheduled", "fired"
  dropPhase,    \* db.dropDatabase(): "none", "pending", "resolved", "rejected", "closed"
  store,        \* the documents of the test database
  savePhase,    \* per record: "none", "pending", "responded", "settled"
  saveErr,      \* per record: the error argument of the save callback
  findPhase,    \* per record: "none", "pending", "responded", "settled"
  findErr,      \* per record: the error argument of the findOne callback
  findDoc,      \* per record: the retrievedData argument of the findOne callback
  cmp,          \* per record: the matcher the findOne callback chose
  failed,       \* the records one of whose expect() calls has thrown
  log,          \* the observable events of teardown, in order
  doneArg,      \* the argument done() was called with
  doneAssertions, \* the number of expect() calls made when done() was called
  doneSettled,  \* the records whose callbacks had all run when done() was called
  issued,       \* the calls runTest has made, in order
  firedSettled, \* the records whose callbacks had all run when the timer fired
  prev          \* the outcome of the previous run of the test, if any

vars == <<testData, schema, conn, promise, pc, result, declared, assertions, timer,
          dropPhase, store, savePhase, saveErr, findPhase, findErr, findDoc, cmp,
          failed, log, doneArg, doneAssertions, doneSettled, issued,
          firedSettled, prev>>

Records == DOMAIN testData

\* Variant: one further assertion per accepted record instead of two.
RECURSIVE assertionCount_single(_)
assertionCount_single(data) ==
  IF data = <<>> THEN 0
  ELSE assertionCount_single(SubSeq(data, 1, Len(data) - 1))
         + 1 + (IF data[Len(data)].willBeCreated THEN 1 ELSE 0)

\* const assertionCount = testData.reduce(...): 1 + 2 * willBeCreated per record
RECURSIVE assertionCount(_)
assertionCount(data) ==
  IF data = <<>> THEN 0
  ELSE assertionCount(SubSeq(data, 1, Len(data) - 1))
         + 1 + 2 * (IF data[Len(data)].willBeCreated THEN 1 ELSE 0)

\* The datasets: one candidate record of some kind per position.
Datasets ==
  UNION { { [i \in 1..n |-> Candidate(k[i], i)] : k \in [1..n -> RecordKinds] } : n \in 1..MaxRecords }

\* An attempt has settled when its save callback has run and the findOne it
\* issued, if any, has had its callback run too.
Settled(i) == savePhase[i] = "settled" /\ findPhase[i] \in {"none", "settled"}

\* No previous run.
NoRun ==
  [run |-> FALSE, accepted |-> {}, error |-> FALSE, settledFirst |-> FALSE,
   over |-> FALSE, storeLeft |-> {}]

\* The state once the modules are loaded: mongoose.connect() is under way
\* and Jest has not yet called testModel.  testModel passes closeDB the
\* object { done, silent: false } with Jest's done; closeDB itself takes
\* any options object, so both flags are drawn here.
Init ==
  /\ testData \in Datasets
  /\ schema \in Schemas
  /\ conn = "connecting"
  /\ promise = "pending"
  /\ pc = "idle"
  /\ result \in [error : {Undefined}, silent : BOOLEAN, doneIsFunction : BOOLEAN]
  /\ declared = 0
  /\ assertions = 0
  /\ timer = "none"
  /\ dropPhase = "none"
  /\ store = {}
  /\ savePhase = [i \in Records |-> "none"]
  /\ saveErr = [i \in Records |-> Undefined]
  /\ findPhase = [i \in Records |-> "none"]
  /\ findErr = [i \in Records |-> Undefined]
  /\ findDoc = [i \in Records |-> NoDoc]
  /\ cmp = [i \in Records |-> "none"]
  /\ failed = {}
  /\ log = <<>>
  /\ doneArg = Undefined
  /\ doneAssertions = 0
  /\ doneSettled = {}
  /\ issued = <<>>
  /\ firedSettled = {}
  /\ prev = NoRun

\* ------------------------------------------------------------------ openDB

\* mongoose.connect(...) resolves: connectionIsOpen resolves openDB.
ConnectOk ==
  /\ conn = "connecting"
  /\ conn' = "open"
  /\ promise' = "resolved"
  /\ UNCHANGED <<prev, firedSettled, issued, testData, schema, pc, result, declared, assertions, timer, dropPhase,
                 store, savePhase, saveErr, findPhase, findErr, findDoc, cmp, failed,
                 log, doneArg, doneAssertions, doneSettled>>

\* mongoose.connect(...) rejects: the catch handler rejects openDB.
ConnectFail ==
  /\ conn = "connecting"
  /\ conn' = "failed"
  /\ promise' = "rejected"
  /\ UNCHANGED <<prev, firedSettled, issued, testData, schema, pc, result, declared, assertions, timer, dropPhase,
                 store, savePhase, saveErr, findPhase, findErr, findDoc, cmp, failed,
                 log, doneArg, doneAssertions, doneSettled>>

\* ------------------------------------------------------------------ testModel

\* Jest calls testModel(done): expect.assertions(assertionCount), openDB.then(runTest).
TestModel ==
  /\ pc = "idle"
  /\ pc' = "waiting"
  /\ declared' = assertionCount(testData)
  /\ UNCHANGED <<prev, firedSettled, issued, testData, schema, conn, promise, result, assertions, timer, dropPhase,
                 store, savePhase, saveErr, findPhase, findErr, findDoc, cmp, failed,
                 log, doneArg, doneAssertions, doneSettled>>

\* Variant: runTest is called without waiting for the promise.
RunTestEnabled_early == pc = "waiting"

\* Variant: the callback is run when the promise settles either way.
RunTestEnabled_onSettle == pc = "waiting" /\ promise # "pending"

\* The then-callback of openDB is run only for a fulfilled promise.
RunTestEnabled == pc = "waiting" /\ promise = "resolved"

\* Variant: the saves are issued first and the timer is set afterwards.
runTest_timerLast(data) ==
  [i \in 1..Len(data) |-> <<"save", i>>] \o << <<"setTimeout", 0>> >>

\* The calls of runTest, in order: setTimeoutToCloseConnection, then
\* testDoc.save for every entry of testData (forEach).
runTest(data) ==
  << <<"setTimeout", 0>> >> \o [i \in 1..Len(data) |-> <<"save", i>>]

\* runTest: the timer is set, then every record's save is issued.
RunTest ==
  /\ RunTestEnabled
  /\ pc' = "running"
  /\ issued' = runTest(testData)
  /\ timer' = "scheduled"
  /\ savePhase' = [i \in Records |-> "pending"]
  /\ UNCHANGED <<prev, firedSettled, testData, schema, conn, promise, result, declared, assertions,
                 dropPhase, store, saveErr, findPhase, findErr, findDoc, cmp, failed,
                 log, doneArg, doneAssertions, doneSettled>>

\* ------------------------------------------------------------------ save

\* The _id that new TestModel() gives the document of record i: a fresh
\* identifier, distinct from those of every other record and run.
NewId(i) == IF prev.run THEN Len(testData) + i ELSE i

\* The store's answer to testDoc.save(): a validation error, the document
\* inserted, or a store error once the connection has been closed.
SaveRespond(i) ==
  /\ savePhase[i] = "pending"
  /\ savePhase' = [savePhase EXCEPT ![i] = "responded"]
  /\ LET testDoc == NewTestModel(schema, testData[i])
     IN  IF ~Validates(schema, testDoc)
         THEN /\ saveErr' = [saveErr EXCEPT ![i] = ValidationError(i)]
              /\ store' = store
         ELSE \/ /\ conn = "open"
                 /\ saveErr' = [saveErr EXCEPT ![i] = Null]
                 /\ store' = store \cup {Persisted(schema, testData[i], NewId(i))}
              \/ /\ conn # "open"
                 /\ saveErr' = [saveErr EXCEPT ![i] = StoreError(i)]
                 /\ store' = store
  /\ UNCHANGED <<prev, firedSettled, issued, testData, schema, conn, promise, pc, result, declared, assertions,
                 timer, dropPhase, findPhase, findErr, findDoc, cmp, failed, log,
                 doneArg, doneAssertions, doneSettled>>

\* Variant: the expect() of the save callback never throws.
SaveExpectPasses_noThrow(willBeCreated, error) == TRUE

\* Whether the expect() of the save callback passes:
\* expect(error).toBeNull() or expect(error).not.toBeNull().
SaveExpectPasses(willBeCreated, error) ==
  IF willBeCreated THEN error = Null ELSE error # Null

\* The value the save callback leaves in result.error.  The clause
\* `catch { error }` has no binding and its block only evaluates `error`;
\* the block that follows it is an ordinary statement, executed on every
\* path, with `error` the argument of the callback.
SaveResultError(old, willBeCreated, error) == error

\* The callback of testDoc.save().
SaveCallback(i) ==
  /\ savePhase[i] = "responded"
  /\ savePhase' = [savePhase EXCEPT ![i] = "settled"]
  /\ assertions' = assertions + 1
  /\ LET wbc == testData[i].willBeCreated
         passes == SaveExpectPasses(wbc, saveErr[i])
     IN  /\ failed' = IF passes THEN failed ELSE failed \cup {i}
         /\ findPhase' = IF wbc /\ passes THEN [findPhase EXCEPT ![i] = "pending"]
                         ELSE findPhase
         /\ result' = [result EXCEPT !.error = SaveResultError(result.error, wbc, saveErr[i])]
  /\ UNCHANGED <<prev, firedSettled, issued, testData, schema, conn, promise, pc, declared, timer, dropPhase,
                 store, saveErr, findErr, findDoc, cmp, log, doneArg,
                 doneAssertions, doneSettled>>

\* ------------------------------------------------------------------ findOne

\* TestModel.findOne({ username }): the documents that match the query.
FindMatches(docs, data) ==
  { d \in docs : "username" \in DOMAIN data /\ d["username"] = data["username"] }

\* The store's answer to findOne: one of the matching documents or null,
\* or a store error once the connection has been closed.
FindRespond(i) ==
  /\ findPhase[i] = "pending"
  /\ findPhase' = [findPhase EXCEPT ![i] = "responded"]
  /\ \/ /\ conn = "open"
        /\ findErr' = [findErr EXCEPT ![i] = Null]
        /\ LET m == FindMatches(store, testData[i])
           IN  \E d \in (IF m = {} THEN {NoDoc} ELSE m) :
                 findDoc' = [findDoc EXCEPT ![i] = d]
     \/ /\ conn # "open"
        /\ findErr' = [findErr EXCEPT ![i] = StoreError(i)]
        /\ findDoc' = findDoc
  /\ UNCHANGED <<prev, firedSettled, issued, testData, schema, conn, promise, pc, result, declared, assertions,
                 timer, dropPhase, store, savePhase, saveErr, cmp, failed, log,
                 doneArg, doneAssertions, doneSettled>>

\* if (retrievedData.willPass): the flag is read from the retrieved document.
ChoosesToEqual(retrieved, expectedData) ==
  "willPass" \in DOMAIN retrieved /\ retrieved["willPass"] = TRUE

\* What a write of `error` to result.error leaves there.
RecordError(old, error) == error

\* The callback of findOne.
FindCallback(i) ==
  /\ findPhase[i] = "responded"
  /\ findPhase' = [findPhase EXCEPT ![i] = "settled"]
  /\ IF findErr[i] # Null
     THEN /\ result' = [result EXCEPT !.error = RecordError(result.error, findErr[i])]
          /\ UNCHANGED <<assertions, cmp, failed>>
     ELSE IF findDoc[i] = NoDoc
     THEN /\ assertions' = assertions + 1
          /\ failed' = failed \cup {i}
          /\ result' = [result EXCEPT !.error = RecordError(result.error, AssertionError(i))]
          /\ cmp' = cmp
     ELSE LET retrievedData == StripGenerated(findDoc[i])
              toEqual == ChoosesToEqual(retrievedData, testData[i])
              passes == IF toEqual THEN retrievedData = testData[i]
                        ELSE retrievedData # testData[i]
          IN  /\ assertions' = assertions + 2
              /\ cmp' = [cmp EXCEPT ![i] = IF toEqual THEN "toEqual" ELSE "notToEqual"]
              /\ failed' = IF passes THEN failed ELSE failed \cup {i}
              /\ result' = IF passes THEN result
                           ELSE [result EXCEPT !.error = RecordError(result.error, AssertionError(i))]
  /\ UNCHANGED <<prev, firedSettled, issued, testData, schema, conn, promise, pc, declared, timer, dropPhase,
                 store, savePhase, saveErr, findErr, findDoc, log, doneArg,
                 doneAssertions, doneSettled>>

\* ------------------------------------------------------------------ teardown

\* The timer set by setTimeoutToCloseConnection fires: db.dropDatabase().
TimerFire ==
  /\ timer = "scheduled"
  /\ timer' = "fired"
  /\ dropPhase' = "pending"
  /\ log' = Append(log, "dropDatabase")
  /\ firedSettled' = {i \in Records : Settled(i)}
  /\ UNCHANGED <<prev, issued, testData, schema, conn, promise, pc, result, declared, assertions,
                 store, savePhase, saveErr, findPhase, findErr, findDoc, cmp, failed,
                 doneArg, doneAssertions, doneSettled>>

\* The store erases the database and the promise of dropDatabase resolves.
DropOk ==
  /\ dropPhase = "pending"
  /\ dropPhase' = "resolved"
  /\ store' = {}
  /\ log' = Append(log, "dropped")
  /\ UNCHANGED <<prev, firedSettled, issued, testData, schema, conn, promise, pc, result, declared, assertions,
                 timer, savePhase, saveErr, findPhase, findErr, findDoc, cmp, failed,
                 doneArg, doneAssertions, doneSettled>>

\* The erase fails and the promise of dropDatabase rejects; nothing handles it.
DropFail ==
  /\ dropPhase = "pending"
  /\ dropPhase' = "rejected"
  /\ UNCHANGED <<prev, firedSettled, issued, testData, schema, conn, promise, pc, result, declared, assertions,
                 timer, store, savePhase, saveErr, findPhase, findErr, findDoc, cmp,
                 failed, log, doneArg, doneAssertions, doneSettled>>

\* Variant: done(error) is called before the connection is closed.
closeDB_doneFirst(options) ==
  (IF options.doneIsFunction THEN <<"done">> ELSE <<>>)
    \o <<"close">>
    \o (IF ~options.silent THEN <<"notice1">> ELSE <<>>)
    \o (IF options.doneIsFunction /\ ~options.silent THEN <<"notice2">> ELSE <<>>)

\* What closeDB(options) does, in order: db.close(), the first notice
\* unless silent, done(error) if done is a function, the second notice
\* unless silent.
closeDB(options) ==
  <<"close">>
    \o (IF ~options.silent THEN <<"notice1">> ELSE <<>>)
    \o (IF options.doneIsFunction
        THEN <<"done">> \o (IF ~options.silent THEN <<"notice2">> ELSE <<>>)
        ELSE <<>>)

\* Variant: closeDB(result) is called without waiting for the erase.
DropThenEnabled_noWait == dropPhase \in {"pending", "resolved"}

\* Whether the then-callback of dropDatabase() may run.
DropThenEnabled == dropPhase = "resolved"

\* The then-callback of dropDatabase(): closeDB(result).
CloseDB ==
  /\ DropThenEnabled
  /\ dropPhase' = "closed"
  /\ conn' = "closed"
  /\ log' = log \o closeDB(result)
  /\ IF result.doneIsFunction
     THEN /\ doneArg' = result.error
          /\ doneAssertions' = assertions
          /\ doneSettled' = {i \in Records : Settled(i)}
     ELSE UNCHANGED <<doneArg, doneAssertions, doneSettled>>
  /\ UNCHANGED <<prev, firedSettled, issued, testData, schema, promise, pc, result, declared, assertions, timer,
                 store, savePhase, saveErr, findPhase, findErr, findDoc, cmp, failed>>

\* ------------------------------------------------------------------ spec

Next ==
  \/ ConnectOk
  \/ ConnectFail
  \/ TestModel
  \/ RunTest
  \/ \E i \in Records : SaveRespond(i)
  \/ \E i \in Records : SaveCallback(i)
  \/ \E i \in Records : FindRespond(i)
  \/ \E i \in Records : FindCallback(i)
  \/ TimerFire
  \/ DropOk
  \/ DropFail
  \/ CloseDB

Spec == Init /\ [][Next]_vars

DoneCalled == \E k \in DOMAIN log : log[k] = "done"

\* ------------------------------------------------------------------ two runs

\* A run is over when done has been called and every callback has run.
RunOver == DoneCalled /\ \A i \in Records : Settled(i)

\* What a run yields: the records whose save was accepted, whether done
\* received an error, whether every callback had run when the timer fired
\* and when the run ended, and the documents it left in the database.
Outcome ==
  [run |-> TRUE,
   accepted |-> {i \in Records : saveErr[i] = Null},
   error |-> IsError(doneArg),
   settledFirst |-> firedSettled = Records,
   over |-> RunOver,
   storeLeft |-> store]

\* The test is run a second time, once done has ended the first run (a
\* new process: the modules are loaded again, the callbacks still
\* outstanding are lost), with the same dataset and schema, on the
\* database as the first run left it.
Rerun ==
  /\ ~prev.run
  /\ DoneCalled
  /\ prev' = Outcome
  /\ conn' = "connecting"
  /\ promise' = "pending"
  /\ pc' = "idle"
  /\ result' = [result EXCEPT !.error = Undefined]
  /\ declared' = 0
  /\ assertions' = 0
  /\ timer' = "none"
  /\ dropPhase' = "none"
  /\ savePhase' = [i \in Records |-> "none"]
  /\ saveErr' = [i \in Records |-> Undefined]
  /\ findPhase' = [i \in Records |-> "none"]
  /\ findErr' = [i \in Records |-> Undefined]
  /\ findDoc' = [i \in Records |-> NoDoc]
  /\ cmp' = [i \in Records |-> "none"]
  /\ failed' = {}
  /\ log' = <<>>
  /\ doneArg' = Undefined
  /\ doneAssertions' = 0
  /\ doneSettled' = {}
  /\ issued' = <<>>
  /\ firedSettled' = {}
  /\ UNCHANGED <<testData, schema, store>>

NextTwice == Next \/ Rerun

SpecTwice == Init /\ [][NextTwice]_vars

Positions(e) == {k \in DOMAIN log : log[k] = e}

\* ------------------------------------------------------------------ claims

\* C1: done is invoked at most once, and when it is invoked the erase has
\* completed and the close of the connection has already been issued.
C1_DoneOnceAfterTeardown ==
  /\ Cardinality(Positions("done")) <= 1
  /\ \A k \in Positions("done") :
       \E a \in Positions("dropped"), b \in Positions("close") : a < b /\ b < k

\* C1 witness: done has been called while a record's callbacks were still
\* outstanding and another record had settled.
C1_Witness ==
  /\ DoneCalled
  /\ \E i \in Records : Settled(i)
  /\ \E i \in Records : ~Settled(i)

\* C2 (as claimed): dropDatabase is never issued while a save callback or
\* a findOne callback of some record is still pending.
C2_TeardownAfterAllSettled ==
  dropPhase # "none" => \A i \in Records : Settled(i)

\* C3 (as claimed): once an error is recorded in result.error, no later
\* write changes it.
C3_FirstWriteWins ==
  [][IsError(result.error) => result'.error = result.error]_vars

\* C4 (as claimed): when an attempt in which an expect() threw has settled
\* before teardown, done receives a non-empty error.
C4_AssertionFailureReported ==
  (DoneCalled /\ failed \cap doneSettled # {}) => IsError(doneArg)

\* C5 (as claimed): the save callback of a record that was rejected as
\* expected issues no retrieval and leaves result.error unchanged.
C5_CorrectRejectionSilent ==
  [][\A i \in Records :
       (/\ savePhase[i] = "responded"
        /\ savePhase'[i] = "settled"
        /\ ~testData[i].willBeCreated
        /\ saveErr[i] # Null)
       => (findPhase'[i] = "none" /\ result'.error = result.error)]_vars

\* C6 (as claimed): once runTest has run, the run cannot come to rest
\* before done has been called (done being a function), whatever errors
\* the save, findOne and dropDatabase operations produced.
C6_TeardownAlwaysCompletes ==
  (pc = "running" /\ result.doneIsFunction /\ ~ENABLED Next) => DoneCalled

\* The events of a complete teardown, for the given flags.
ExpectedTeardown(silent, doneIsFunction) ==
  <<"dropDatabase", "dropped", "close">>
    \o (CASE ~silent /\ doneIsFunction  -> <<"notice1", "done", "notice2">>
          [] ~silent /\ ~doneIsFunction -> <<"notice1">>
          [] silent /\ doneIsFunction   -> <<"done">>
          [] OTHER                      -> <<>>)

IsPrefix(s, t) == Len(s) <= Len(t) /\ s = SubSeq(t, 1, Len(s))

\* C7: the steps of teardown happen in the order erase, close, first
\* notice unless silent, done(error) if done is a function, second notice
\* unless silent; done receives the value of result.error at that moment.
C7_TeardownOrder ==
  /\ [](/\ IsPrefix(log, ExpectedTeardown(result.silent, result.doneIsFunction))
        /\ dropPhase = "closed"
             => log = ExpectedTeardown(result.silent, result.doneIsFunction))
  /\ [][(dropPhase # "closed" /\ dropPhase' = "closed" /\ result.doneIsFunction)
          => doneArg' = result.error]_vars

\* C7 witness: a silent teardown with a callable done has completed after
\* an error was recorded.
C7_Witness ==
  /\ dropPhase = "closed"
  /\ result.silent
  /\ result.doneIsFunction
  /\ IsError(doneArg)

\* The accepted-expected records whose retrieval had delivered a document
\* by the time done was called.
RetrievedAtDone ==
  { i \in doneSettled :
      /\ testData[i].willBeCreated
      /\ findPhase[i] = "settled"
      /\ findErr[i] = Null
      /\ findDoc[i] # NoDoc }

Accepted == {i \in Records : testData[i].willBeCreated}

\* C8: the declared count is records + 2 * accepted-expected records; when
\* done is called the executed count equals it if every record has settled
\* and every accepted-expected record retrieved a document, and is
\* strictly smaller if some accepted-expected record did not.
C8_AssertionCount ==
  /\ pc # "idle" => declared = Len(testData) + 2 * Cardinality(Accepted)
  /\ DoneCalled =>
       /\ (doneSettled = Records /\ RetrievedAtDone = Accepted)
            => doneAssertions = declared
       /\ RetrievedAtDone # Accepted => doneAssertions < declared

\* C8 witness: done was called after every expected assertion had run, for
\* a dataset with accepted and rejected records.
C8_Witness ==
  /\ DoneCalled
  /\ doneSettled = Records
  /\ RetrievedAtDone = Accepted
  /\ Accepted # {}
  /\ Accepted # Records

\* C9 (as claimed): the matcher is chosen by the willPass flag of the
\* submitted record, for either schema.
C9_ChoiceByCandidateFlag ==
  \A i \in Records :
    cmp[i] # "none" => (cmp[i] = "toEqual" <=> testData[i]["willPass"] = TRUE)

\* C10: when the connection cannot be established the promise is rejected
\* and stays so, and no save, findOne, timer or erase is ever issued.
C10_NoRunWithoutConnection ==
  /\ [](conn = "failed" =>
          /\ promise = "rejected"
          /\ timer = "none"
          /\ dropPhase = "none"
          /\ \A i \in Records : savePhase[i] = "none" /\ findPhase[i] = "none")
  /\ [][promise = "rejected" => promise' = "rejected" /\ conn' = "failed"]_vars

\* C10 witness: the connection failed after testModel registered runTest.
C10_Witness == conn = "failed" /\ pc = "waiting"

\* C11 (as claimed): once teardown has run, the store holds no document
\* and the connection is closed, in every later state.
C11_StoreEmptyAfterTeardown ==
  dropPhase = "closed" => (store = {} /\ conn = "closed")

\* C12 (as claimed): an erase that fails is recorded like an assertion
\* error, so that the run ends with done called with that error.
C12_EraseErrorPropagated ==
  (dropPhase = "rejected" /\ result.doneIsFunction /\ ~ENABLED Next)
    => (DoneCalled /\ IsError(doneArg))

\* The transitions of the connection: connecting to open or failed, open
\* to closed, and none out of closed or failed.
ConnStep ==
  \/ conn' = conn
  \/ <<conn, conn'>> \in {<<"connecting", "open">>, <<"connecting", "failed">>,
                          <<"open", "closed">>}

\* C13: teardown runs at most once and only on an open connection; the
\* connection goes connecting, open, closed and never leaves closed.
C13_TeardownOnceWhenOpen ==
  /\ [](/\ Cardinality(Positions("dropDatabase")) <= 1
        /\ Cardinality(Positions("close")) <= 1
        /\ dropPhase \in {"pending", "resolved", "rejected"} => conn = "open"
        /\ dropPhase = "closed" => conn = "closed")
  /\ [][ConnStep /\ (log' # log => conn = "open")]_vars

\* C13 witness: teardown has closed the connection while a save was still
\* awaiting its answer.
C13_Witness ==
  /\ conn = "closed"
  /\ Positions("close") # {}
  /\ \E i \in Records : savePhase[i] = "pending"

\* C15: a findOne has been issued for a record exactly when its save
\* callback ran with no error and acceptance was expected.
C15_RetrievalIffAccepted ==
  \A i \in Records :
    findPhase[i] # "none"
      <=> (savePhase[i] = "settled" /\ testData[i]["willBeCreated"] /\ saveErr[i] = Null)

\* C15 witness: one record's save succeeded as expected and its findOne is
\* issued, another record's save failed although acceptance was expected
\* and it has settled without a findOne.
C15_Witness ==
  \E i, j \in Records :
    /\ findPhase[i] = "pending"
    /\ testData[j]["willBeCreated"]
    /\ savePhase[j] = "settled"
    /\ saveErr[j] # Null
    /\ findPhase[j] = "none"

\* C16 (as claimed): no findOne is issued once the erase has begun or the
\* connection has been closed.
C16_NoOperationAfterWipe ==
  [][\A i \in Records :
       (findPhase[i] = "none" /\ findPhase'[i] = "pending")
         => (dropPhase = "none" /\ conn = "open")]_vars

\* C17: nothing is issued before openDB has resolved; runTest then sets
\* the timer exactly once, before the first save, and issues exactly one
\* save for every record.
C17_OneSavePerRecordAfterReady ==
  /\ (promise # "resolved" \/ pc # "running") =>
       /\ issued = <<>>
       /\ timer = "none"
       /\ \A i \in Records : savePhase[i] = "none"
  /\ pc = "running" =>
       /\ promise = "resolved"
       /\ issued # <<>>
       /\ issued[1] = <<"setTimeout", 0>>
       /\ Cardinality({k \in DOMAIN issued : issued[k] = <<"setTimeout", 0>>}) = 1
       /\ timer # "none"
       /\ \A i \in Records :
            /\ Cardinality({k \in DOMAIN issued : issued[k] = <<"save", i>>}) = 1
            /\ savePhase[i] # "none"

\* C17 witness: one record's save has failed and its callback has run
\* while the save of another record is still awaiting its answer.
C17_Witness ==
  \E i, j \in Records :
    /\ savePhase[i] = "settled"
    /\ saveErr[i] # Null
    /\ savePhase[j] = "pending"
    /\ timer = "scheduled"

\* C14 (as claimed): two runs in succession, each started on an empty
\* store and run until every callback has been delivered, accept the same
\* records and pass done the same error or absence of error.
C14_SameOutcomeTwice ==
  (prev.run /\ prev.over /\ prev.storeLeft = {} /\ RunOver) =>
    (Outcome.accepted = prev.accepted /\ Outcome.error = prev.error)

\* C18 (as claimed): two runs in which every callback has run before the
\* timer fires end with the same pass or fail, whatever the order of the
\* callbacks, and with no error when no expectation of any record failed.
C18_OrderIndependent ==
  (RunOver /\ firedSettled = Records) =>
    /\ (prev.run /\ prev.settledFirst) => Outcome.error = prev.error
    /\ failed = {} => ~IsError(doneArg)

====
